---------------------------- MODULE Spec2Model ----------------------------
(***************************************************************************)
(* Model of the OpenAI multi-API-key proxy (src/src/server.js).            *)
(*                                                                         *)
(* Text is modelled as a sequence of one-character strings, a Buffer as a  *)
(* sequence of bytes (an ASCII byte is written as its character, "xC3"     *)
(* and "xA9" are the two bytes of U+00E9).  JavaScript values are tagged   *)
(* records, so that truthiness and property access can be computed the way *)
(* the code computes them.                                                 *)
(***************************************************************************)
EXTENDS Integers, Sequences, FiniteSets, TLC

-----------------------------------------------------------------------------
(* String primitives of JavaScript used by the code *)

WhiteSpace == {" ", "\t", "\r", "\n"}

LineTerminators == {"\n", "\r"}

UpperCase == <<"A", "B", "C", "D", "E", "F", "G", "H", "I", "J", "K", "L", "M", "N", "O", "P", "Q", "R", "S", "T", "U", "V", "W", "X", "Y", "Z">>

LowerCase == <<"a", "b", "c", "d", "e", "f", "g", "h", "i", "j", "k", "l", "m", "n", "o", "p", "q", "r", "s", "t", "u", "v", "w", "x", "y", "z">>

\* String.prototype.toLowerCase, one character
LowerChar(c) ==
    IF \E i \in 1..Len(UpperCase) : UpperCase[i] = c
    THEN LowerCase[CHOOSE i \in 1..Len(UpperCase) : UpperCase[i] = c]
    ELSE c

\* String.prototype.toLowerCase
toLowerCase(s) == [i \in 1..Len(s) |-> LowerChar(s[i])]

RECURSIVE TrimStart(_)
TrimStart(s) ==
    IF s # <<>> /\ Head(s) \in WhiteSpace THEN TrimStart(Tail(s)) ELSE s

RECURSIVE TrimEnd(_)
TrimEnd(s) ==
    IF s # <<>> /\ s[Len(s)] \in WhiteSpace
    THEN TrimEnd(SubSeq(s, 1, Len(s) - 1))
    ELSE s

\* String.prototype.trim
trim(s) == TrimEnd(TrimStart(s))

\* String.prototype.startsWith
startsWith(s, p) == Len(s) >= Len(p) /\ SubSeq(s, 1, Len(p)) = p

\* String.prototype.includes
includes(s, sub) ==
    \E i \in 0..(Len(s) - Len(sub)) : SubSeq(s, i + 1, i + Len(sub)) = sub

\* String.prototype.slice(n)
slice(s, n) == SubSeq(s, n + 1, Len(s))

\* String.prototype.split with a one-character separator: '' splits to ['']
RECURSIVE split(_, _)
split(s, sep) ==
    IF \E i \in 1..Len(s) : s[i] = sep
    THEN LET i == CHOOSE k \in 1..Len(s) :
                      s[k] = sep /\ \A j \in 1..(k - 1) : s[j] # sep
         IN  <<SubSeq(s, 1, i - 1)>> \o split(SubSeq(s, i + 1, Len(s)), sep)
    ELSE <<s>>

\* Buffer.prototype.toString('utf8') of one chunk: the bytes xC3 xA9 decode
\* to U+00E9, a byte of that pair on its own decodes to U+FFFD
RECURSIVE toString(_)
toString(bytes) ==
    IF \A i \in 1..Len(bytes) : bytes[i] \notin {"xC3", "xA9"} THEN bytes
    ELSE LET i == CHOOSE k \in 1..Len(bytes) :
                      /\ bytes[k] \in {"xC3", "xA9"}
                      /\ \A j \in 1..(k - 1) : bytes[j] \notin {"xC3", "xA9"}
         IN  IF bytes[i] = "xC3" /\ i < Len(bytes) /\ bytes[i + 1] = "xA9"
             THEN SubSeq(bytes, 1, i - 1) \o <<"U+00E9">>
                      \o toString(SubSeq(bytes, i + 2, Len(bytes)))
             ELSE SubSeq(bytes, 1, i - 1) \o <<"U+FFFD">>
                      \o toString(SubSeq(bytes, i + 1, Len(bytes)))

-----------------------------------------------------------------------------
(* JavaScript values *)

Undefined == [t |-> "undefined"]

Null == [t |-> "null"]

Bool(b) == [t |-> "boolean", v |-> b]

Num(n) == [t |-> "number", v |-> n]

Str(s) == [t |-> "string", v |-> s]

\* an object: a function from property names to values
Obj(f) == [t |-> "object", v |-> f]

\* property access o.k
Get(o, k) == IF o.t = "object" /\ k \in DOMAIN o.v THEN o.v[k] ELSE Undefined

\* ToBoolean, as applied by if (x), x && y, x || y
Truthy(x) ==
    CASE x.t \in {"undefined", "null"} -> FALSE
      [] x.t = "boolean" -> x.v
      [] x.t = "number" -> x.v # 0
      [] x.t = "string" -> x.v # <<>>
      [] OTHER -> TRUE

-----------------------------------------------------------------------------
(* JSON.stringify and JSON.parse *)

Digits == <<"0", "1", "2", "3", "4", "5", "6", "7", "8", "9">>

\* property names, in the order the code's object literals list them
PropertyOrder == <<"error", "message", "type", "ok", "stream", "usage", "completion_tokens", "note", "id">>

PropertyChars ==
    [k \in {PropertyOrder[i] : i \in 1..Len(PropertyOrder)} |->
        CASE k = "error" -> <<"e", "r", "r", "o", "r">>
          [] k = "message" -> <<"m", "e", "s", "s", "a", "g", "e">>
          [] k = "type" -> <<"t", "y", "p", "e">>
          [] k = "ok" -> <<"o", "k">>
          [] k = "stream" -> <<"s", "t", "r", "e", "a", "m">>
          [] k = "usage" -> <<"u", "s", "a", "g", "e">>
          [] k = "completion_tokens" -> <<"c", "o", "m", "p", "l", "e", "t", "i", "o", "n", "_", "t", "o", "k", "e", "n", "s">>
          [] k = "note" -> <<"n", "o", "t", "e">>
          [] k = "id" -> <<"i", "d">>]

RECURSIVE NumberToString(_)
NumberToString(n) ==
    IF n < 10 THEN <<Digits[n + 1]>>
    ELSE NumberToString(n \div 10) \o <<Digits[(n % 10) + 1]>>

RECURSIVE Join(_, _)
Join(parts, sep) ==
    IF parts = <<>> THEN <<>>
    ELSE IF Len(parts) = 1 THEN parts[1]
    ELSE parts[1] \o sep \o Join(Tail(parts), sep)

RECURSIVE JSONStringify(_)
RECURSIVE Members(_, _)

\* the "name":value members of an object, from the i-th property name on
Members(f, i) ==
    IF i > Len(PropertyOrder) THEN <<>>
    ELSE IF PropertyOrder[i] \in DOMAIN f
         THEN << <<"\"">> \o PropertyChars[PropertyOrder[i]] \o <<"\"", ":">>
                    \o JSONStringify(f[PropertyOrder[i]]) >>
                 \o Members(f, i + 1)
    ELSE Members(f, i + 1)

\* JSON.stringify (the strings of the model need no escaping)
JSONStringify(x) ==
    CASE x.t = "string" -> <<"\"">> \o x.v \o <<"\"">>
      [] x.t = "boolean" -> IF x.v THEN <<"t", "r", "u", "e">> ELSE <<"f", "a", "l", "s", "e">>
      [] x.t = "number" -> NumberToString(x.v)
      [] x.t = "object" -> <<"{">> \o Join(Members(x.v, 1), <<",">>) \o <<"}">>
      [] OTHER -> <<"n", "u", "l", "l">>

\* the usage objects an upstream payload of the model can carry
UsageA == Obj("completion_tokens" :> Num(5))

UsageE == Obj("note" :> Str(<<"U+00E9">>))

UsageEBad == Obj("note" :> Str(<<"U+FFFD", "U+FFFD">>))

UsageZero == Obj("completion_tokens" :> Num(0))

\* every JSON value whose text can reach JSON.parse in the model
JsonValues ==
    << Obj("usage" :> UsageA),
       Obj("usage" :> UsageE),
       Obj("usage" :> UsageEBad),
       Obj("usage" :> Null),
       Obj("id" :> Num(1)),
       Obj("usage" :> UsageZero) >>

JsonTexts == [i \in 1..Len(JsonValues) |-> JSONStringify(JsonValues[i])]

\* JSON.parse: [ok |-> FALSE] stands for the SyntaxError it throws
JSONParse(text) ==
    LET t == trim(text)
    IN  IF \E i \in 1..Len(JsonTexts) : JsonTexts[i] = t
        THEN [ok |-> TRUE,
              value |-> JsonValues[CHOOSE i \in 1..Len(JsonTexts) : JsonTexts[i] = t]]
        ELSE [ok |-> FALSE, value |-> Undefined]

-----------------------------------------------------------------------------
(* Configuration and literals of server.js *)

\* process.env.OPENAI_API_KEY, the single upstream credential
OPENAI_API_KEY == <<"s", "k", "-", "u", "p">>

Msg_MissingAuth == <<"M", "i", "s", "s", "i", "n", "g", " ", "a", "u", "t", "h", "o", "r", "i", "z", "a", "t", "i", "o", "n", " ", "h", "e", "a", "d", "e", "r">>

Msg_InvalidFormat == <<"I", "n", "v", "a", "l", "i", "d", " ", "a", "u", "t", "h", "o", "r", "i", "z", "a", "t", "i", "o", "n", " ", "h", "e", "a", "d", "e", "r", " ", "f", "o", "r", "m", "a", "t">>

Msg_InvalidKey == <<"I", "n", "v", "a", "l", "i", "d", " ", "A", "P", "I", " ", "k", "e", "y">>

Msg_UpstreamRequestError == <<"U", "p", "s", "t", "r", "e", "a", "m", " ", "r", "e", "q", "u", "e", "s", "t", " ", "e", "r", "r", "o", "r">>

Msg_UpstreamResponseError == <<"U", "p", "s", "t", "r", "e", "a", "m", " ", "r", "e", "s", "p", "o", "n", "s", "e", " ", "e", "r", "r", "o", "r">>

Msg_UpstreamTimeout == <<"u", "p", "s", "t", "r", "e", "a", "m", "-", "t", "i", "m", "e", "o", "u", "t">>

Type_InvalidRequest == <<"i", "n", "v", "a", "l", "i", "d", "_", "r", "e", "q", "u", "e", "s", "t", "_", "e", "r", "r", "o", "r">>

Type_ServerError == <<"s", "e", "r", "v", "e", "r", "_", "e", "r", "r", "o", "r">>

Str_EventStream == <<"t", "e", "x", "t", "/", "e", "v", "e", "n", "t", "-", "s", "t", "r", "e", "a", "m">>

Str_EventStreamUtf8 == <<"t", "e", "x", "t", "/", "e", "v", "e", "n", "t", "-", "s", "t", "r", "e", "a", "m", ";", " ", "c", "h", "a", "r", "s", "e", "t", "=", "u", "t", "f", "-", "8">>

Str_NoCache == <<"n", "o", "-", "c", "a", "c", "h", "e", ",", " ", "n", "o", "-", "t", "r", "a", "n", "s", "f", "o", "r", "m">>

Str_KeepAlive == <<"k", "e", "e", "p", "-", "a", "l", "i", "v", "e">>

Str_AppJson == <<"a", "p", "p", "l", "i", "c", "a", "t", "i", "o", "n", "/", "j", "s", "o", "n">>

Str_AppJsonUtf8 == <<"a", "p", "p", "l", "i", "c", "a", "t", "i", "o", "n", "/", "j", "s", "o", "n", ";", " ", "c", "h", "a", "r", "s", "e", "t", "=", "u", "t", "f", "-", "8">>

Str_Identity == <<"i", "d", "e", "n", "t", "i", "t", "y">>

Str_OpenaiProxy == <<"o", "p", "e", "n", "a", "i", "-", "p", "r", "o", "x", "y">>

Str_Bearer == <<"B", "e", "a", "r", "e", "r", " ">>

DataPrefix == <<"d", "a", "t", "a", ":", " ">>

Str_Done == <<"[", "D", "O", "N", "E", "]">>

Str_EventError == <<"e", "v", "e", "n", "t", ":", " ", "e", "r", "r", "o", "r", "\n">>

\* the error body of every error path: { error: { message, type } }
ErrorPayload(message, type) ==
    Obj("error" :> Obj(("message" :> Str(message)) @@ ("type" :> Str(type))))

-----------------------------------------------------------------------------
(* KeyAllowlist: the allowed keys file and isKeyAllowed *)

\* a file that does not exist (fs.existsSync is false)
FileMissing == [exists |-> FALSE, readable |-> FALSE, content |-> <<>>]

\* a file that exists and that fs.readFileSync fails to read
FileUnreadable == [exists |-> TRUE, readable |-> FALSE, content |-> <<>>]

FileOf(content) == [exists |-> TRUE, readable |-> TRUE, content |-> content]

\* "k1", a comment, a blank line, " k2 " with blanks and a CRLF ending
File_A == FileOf(<<"k", "1", "\n", "#", "c", "\n", "\n", " ", "k", "2", " ", "\r", "\n">>)

\* k1 commented out, "k2" with no final newline
File_B == FileOf(<<"#", "k", "1", "\n", "k", "2">>)

KeyFiles == {FileMissing, FileUnreadable, File_A, File_B}

\* isKeyAllowed() on the keys as they were when the app started, with File_A
\* the file of that moment
isKeyAllowedAtStartup(key, file) ==
    LET lines == split(File_A.content, "\n")
        trimmed == [i \in 1..Len(lines) |-> trim(lines[i])]
        keys == SelectSeq(trimmed,
                   LAMBDA line : Len(line) > 0 /\ ~startsWith(line, <<"#">>))
    IN  \E i \in 1..Len(keys) : keys[i] = key

isKeyAllowedUnfiltered(key, file) ==
    IF ~file.exists THEN FALSE
    ELSE IF ~file.readable THEN FALSE
    ELSE LET lines == split(file.content, "\n")
             keys == [i \in 1..Len(lines) |-> trim(lines[i])]
         IN  \E i \in 1..Len(keys) : keys[i] = key

\* isKeyAllowed(key), reading the file as it is at the call
isKeyAllowed(key, file) ==
    IF ~file.exists THEN FALSE
    ELSE IF ~file.readable THEN FALSE    \* readFileSync throws, caught
    ELSE LET lines == split(file.content, "\n")
             trimmed == [i \in 1..Len(lines) |-> trim(lines[i])]
             keys == SelectSeq(trimmed,
                        LAMBDA line : Len(line) > 0 /\ ~startsWith(line, <<"#">>))
         IN  \E i \in 1..Len(keys) : keys[i] = key

-----------------------------------------------------------------------------
(* Inbound requests *)

Request(method, originalUrl, headers, body) ==
    [method |-> method, originalUrl |-> originalUrl, headers |-> headers, body |-> body]

\* the slot of a request that has not arrived
NoRequest == Request("", "", <<>>, Undefined)

\* req.headers[name]
Header(headers, name) == IF name \in DOMAIN headers THEN Str(headers[name]) ELSE Undefined

Hdr_Json == "content-type" :> Str_AppJson

Hdr_Curl == ("user-agent" :> <<"c", "u", "r", "l", "/", "8">>) @@ ("accept" :> <<"*", "/", "*">>)

Auth(value) == "authorization" :> value

ChatUrl == "/v1/chat/completions"

StreamBody(b) == Obj("stream" :> Bool(b))

\* express.json leaves {} as the body of a request that has none
EmptyBody == Obj(<<>>)

ReqChatStream == Request("POST", ChatUrl, Auth(<<"B", "e", "a", "r", "e", "r", " ", "k", "1">>) @@ Hdr_Json @@ ("accept" :> Str_AppJson), StreamBody(TRUE))

ReqChatPlain == Request("POST", ChatUrl, Auth(<<"b", "e", "a", "r", "e", "r", " ", " ", " ", "k", "2">>) @@ Hdr_Json @@ ("accept" :> Str_AppJson), StreamBody(FALSE))

ReqHealth == Request("GET", "/health", Hdr_Curl, EmptyBody)

ReqHealthAuth == Request("GET", "/health", Auth(<<"B", "e", "a", "r", "e", "r", " ", "k", "1">>) @@ Hdr_Curl, EmptyBody)

ReqNoAuth == Request("POST", ChatUrl, Hdr_Json, StreamBody(FALSE))

ReqEmptyAuth == Request("POST", ChatUrl, Auth(<<>>) @@ Hdr_Json, StreamBody(FALSE))

ReqBasic == Request("POST", ChatUrl, Auth(<<"B", "a", "s", "i", "c", " ", "k", "1">>) @@ Hdr_Json, StreamBody(FALSE))

ReqNoToken == Request("POST", ChatUrl, Auth(<<"B", "e", "a", "r", "e", "r">>) @@ Hdr_Json, StreamBody(FALSE))

ReqNoSpace == Request("POST", ChatUrl, Auth(<<"B", "e", "a", "r", "e", "r", "k", "1">>) @@ Hdr_Json, StreamBody(FALSE))

ReqUnknownKey == Request("POST", ChatUrl, Auth(<<"B", "e", "a", "r", "e", "r", " ", "k", "9">>) @@ Hdr_Json, StreamBody(TRUE))

ReqCommentKey == Request("POST", ChatUrl, Auth(<<"B", "e", "a", "r", "e", "r", " ", "#", "c">>) @@ Hdr_Json, StreamBody(FALSE))

\* the requests a client of the model sends
Requests ==
    { ReqChatStream, ReqChatPlain, ReqHealth, ReqHealthAuth, ReqNoAuth, ReqEmptyAuth,
      ReqBasic, ReqNoToken, ReqNoSpace, ReqUnknownKey, ReqCommentKey }

-----------------------------------------------------------------------------
(* Express routing *)

\* the routes in the order they are registered
Routes ==
    << [verb |-> "use", path |-> "*", handler |-> "handleProxy"],
       [verb |-> "get", path |-> "/health", handler |-> "health"] >>

\* whether a route accepts a request: app.use('*') takes every method and
\* path, app.get(path) the GET and HEAD requests of that path
RouteMatches(route, request) ==
    IF route.verb = "use" THEN route.path = "*" \/ route.path = request.originalUrl
    ELSE request.method \in {"GET", "HEAD"} /\ route.path = request.originalUrl

\* the handler of the first route in `routes` that accepts the request; neither
\* handler calls next(), so no later route runs
RouteIn(routes, request) ==
    IF \E i \in 1..Len(routes) : RouteMatches(routes[i], request)
    THEN routes[CHOOSE i \in 1..Len(routes) :
                    /\ RouteMatches(routes[i], request)
                    /\ \A j \in 1..(i - 1) : ~RouteMatches(routes[j], request)].handler
    ELSE "notFound"

Route(request) == RouteIn(Routes, request)

-----------------------------------------------------------------------------
(* handleProxy: authorization *)

\* the match of /^Bearer\s*(.+)$/i, which asks for no white space after the
\* scheme
BearerMatchOptionalSpace(authorization) ==
    LET n == Len(authorization)
        rest == SubSeq(authorization, 7, n)
        after == TrimStart(rest)
        ws == Len(rest) - Len(after)
        group == IF after # <<>> THEN after
                 ELSE IF ws >= 1 THEN <<rest[ws]>>
                 ELSE <<>>
    IN  IF /\ n >= 6
           /\ toLowerCase(SubSeq(authorization, 1, 6)) = <<"b", "e", "a", "r", "e", "r">>
           /\ group # <<>>
           /\ \A i \in 1..Len(group) : group[i] \notin LineTerminators
        THEN [matched |-> TRUE, group |-> group]
        ELSE [matched |-> FALSE, group |-> <<>>]

\* authorization.match(/^Bearer\s+(.+)$/i): the scheme in any letter case, one
\* or more white-space characters (greedy, giving back one when nothing else
\* is left for the group), then the group up to the end, which may hold no
\* line terminator
BearerMatch(authorization) ==
    LET n == Len(authorization)
        rest == SubSeq(authorization, 7, n)
        after == TrimStart(rest)
        ws == Len(rest) - Len(after)
        group == IF after # <<>> THEN after
                 ELSE IF ws >= 2 THEN <<rest[ws]>>
                 ELSE <<>>
    IN  IF /\ n >= 6
           /\ toLowerCase(SubSeq(authorization, 1, 6)) = <<"b", "e", "a", "r", "e", "r">>
           /\ ws >= 1
           /\ group # <<>>
           /\ \A i \in 1..Len(group) : group[i] \notin LineTerminators
        THEN [matched |-> TRUE, group |-> group]
        ELSE [matched |-> FALSE, group |-> <<>>]

-----------------------------------------------------------------------------
(* handleProxy: the outbound request *)

clientAccept(request) == Header(request.headers, "accept")

wantsStream(request) ==
    /\ Truthy(request.body)
    /\ request.body.t = "object"
    /\ Get(request.body, "stream").t = "boolean"
    /\ Get(request.body, "stream").v = TRUE

isGetRequest(request) == request.method \in {"GET", "HEAD"}

\* a || b on header values
OrElse(a, b) == IF Truthy(a) THEN a.v ELSE b

\* upstreamHeaders with the accept header of the client first
upstreamHeadersClientFirst(request) ==
    ("accept" :> IF Truthy(clientAccept(request)) THEN clientAccept(request).v
                 ELSE IF wantsStream(request) THEN Str_EventStream
                 ELSE Str_AppJson)
    @@ ("authorization" :> Str_Bearer \o OPENAI_API_KEY)
    @@ ("accept-encoding" :> Str_Identity)
    @@ ("user-agent" :> OrElse(Header(request.headers, "user-agent"), Str_OpenaiProxy))
    @@ (IF isGetRequest(request) THEN <<>>
        ELSE "content-type" :> OrElse(Header(request.headers, "content-type"), Str_AppJson))

upstreamHeaders(request) ==
    ("accept" :> IF wantsStream(request) THEN Str_EventStream
                 ELSE OrElse(clientAccept(request), Str_AppJson))
    @@ ("authorization" :> Str_Bearer \o OPENAI_API_KEY)
    @@ ("accept-encoding" :> Str_Identity)
    @@ ("user-agent" :> OrElse(Header(request.headers, "user-agent"), Str_OpenaiProxy))
    @@ (IF isGetRequest(request) THEN <<>>
        ELSE "content-type" :> OrElse(Header(request.headers, "content-type"), Str_AppJson))

\* the request passed to httpModule.request and ended with the body; the
\* path is req.originalUrl appended to OPENAI_BASE_URL
Outbound(request) ==
    [method |-> request.method,
     path |-> request.originalUrl,
     headers |-> upstreamHeaders(request),
     hasBody |-> ~isGetRequest(request),
     body |-> IF isGetRequest(request) THEN <<>>
              ELSE JSONStringify(IF Truthy(request.body) THEN request.body ELSE Obj(<<>>))]

NoOutbound == [method |-> "", path |-> "", headers |-> <<>>, hasBody |-> FALSE, body |-> <<>>]

-----------------------------------------------------------------------------
(* The client response (Express res) *)

ResInit ==
    [statusCode |-> 200, headers |-> <<>>, headersSent |-> FALSE, body |-> <<>>,
     ended |-> FALSE, endCalls |-> 0, lateWrites |-> 0]

\* res.status(code)
ResStatus(res, code) == [res EXCEPT !.statusCode = code]

\* res.setHeader(name, value)
ResSetHeader(res, name, value) ==
    [res EXCEPT !.headers = (name :> value) @@ res.headers]

\* res.getHeader(name)
ResGetHeader(res, name) == Header(res.headers, name)

\* res.write(chunk): the first write sends the headers; a write after end()
\* sends nothing and raises ERR_STREAM_WRITE_AFTER_END
ResWrite(res, chunk) ==
    IF res.ended THEN [res EXCEPT !.lateWrites = @ + 1]
    ELSE [res EXCEPT !.headersSent = TRUE, !.body = Append(@, chunk)]

\* res.end()
ResEnd(res) ==
    IF res.ended THEN [res EXCEPT !.endCalls = @ + 1]
    ELSE [res EXCEPT !.headersSent = TRUE, !.ended = TRUE, !.endCalls = @ + 1]

\* res.json(obj): the content type unless one is set, the serialised body, end
ResJson(res, obj) ==
    ResEnd(ResWrite(
        IF "content-type" \in DOMAIN res.headers THEN res
        ELSE ResSetHeader(res, "content-type", Str_AppJsonUtf8),
        JSONStringify(obj)))

-----------------------------------------------------------------------------
(* UsageExtractor: the SSE line processing and the buffered parse *)

\* the body of the loop over lines keeping the first usage it finds
ProcessLineFirst(line, usage) ==
    IF startsWith(line, DataPrefix) /\ ~Truthy(usage)
    THEN LET dataStr == slice(line, 6)
         IN  IF dataStr = Str_Done THEN usage
             ELSE LET data == JSONParse(dataStr)
                  IN  IF data.ok /\ Truthy(Get(data.value, "usage"))
                      THEN Get(data.value, "usage")
                      ELSE usage
    ELSE usage

\* the body of the loop over lines (lines 179-189, repeated at 205-215): a
\* line that starts with 'data: ', is not [DONE], parses and has a truthy
\* usage replaces the snapshot; anything else leaves it
ProcessLine(line, usage) ==
    IF startsWith(line, DataPrefix)
    THEN LET dataStr == slice(line, 6)
         IN  IF dataStr = Str_Done THEN usage
             ELSE LET data == JSONParse(dataStr)
                  IN  IF data.ok /\ Truthy(Get(data.value, "usage"))
                      THEN Get(data.value, "usage")
                      ELSE usage
    ELSE usage

RECURSIVE ProcessLines(_, _)
ProcessLines(lines, usage) ==
    IF lines = <<>> THEN usage
    ELSE ProcessLines(Tail(lines), ProcessLine(Head(lines), usage))

\* processChunkForLogging(chunk) on the closure's buffer and usage
processChunkForLogging(buffer, usage, chunk) ==
    LET text == buffer \o toString(chunk)
        lines == split(text, "\n")
    IN  [buffer |-> lines[Len(lines)],
         usage |-> ProcessLines(SubSeq(lines, 1, Len(lines) - 1), usage)]

\* the flush of the carry-over buffer in the streaming 'end' handler
FlushBuffer(buffer, usage) ==
    IF buffer # <<>> THEN ProcessLines(split(buffer, "\n"), usage) ELSE usage

\* the buffered 'end' handler's parse of the whole body: the usage to log, or
\* Undefined when the body does not parse or has no truthy usage
BufferedUsage(responseBody) ==
    LET parsed == JSONParse(responseBody)
    IN  IF parsed.ok /\ Truthy(Get(parsed.value, "usage"))
        THEN Get(parsed.value, "usage")
        ELSE Undefined

-----------------------------------------------------------------------------
(* The upstream service *)

\* header names as the upstream writes them, and as Node's parser presents
\* them in upstreamRes.headers
LowerName(name) ==
    CASE name = "Content-Type" -> "content-type"
      [] name = "Content-Encoding" -> "content-encoding"
      [] name = "CONTENT-ENCODING" -> "content-encoding"
      [] name = "X-Request-Id" -> "x-request-id"
      [] OTHER -> name

\* upstreamRes.headers of a response whose raw headers are `raw`
ParsedHeaders(raw) ==
    [k \in {LowerName(n) : n \in DOMAIN raw} |->
        raw[CHOOSE n \in DOMAIN raw : LowerName(n) = k]]

Head_SSE ==
    [statusCode |-> 200,
     rawHeaders |-> ("Content-Type" :> Str_EventStream) @@ ("X-Request-Id" :> <<"7">>)]

Head_JSON ==
    [statusCode |-> 200,
     rawHeaders |-> ("content-type" :> Str_AppJson) @@ ("Content-Encoding" :> <<"g", "z", "i", "p">>)]

Head_Bare ==
    [statusCode |-> 500,
     rawHeaders |-> ("CONTENT-ENCODING" :> Str_Identity)]

NoHead == [statusCode |-> 0, rawHeaders |-> <<>>]

\* the status lines and headers the upstream of the model answers with
UpstreamHeads == {Head_SSE, Head_JSON, Head_Bare}

\* a complete SSE frame with a usage object
Chunk_UsageFrame == DataPrefix \o JSONStringify(Obj("usage" :> UsageA)) \o <<"\n">>

\* the UTF-8 bytes of a text
RECURSIVE Utf8Bytes(_)
Utf8Bytes(text) ==
    IF \A i \in 1..Len(text) : text[i] # "U+00E9" THEN text
    ELSE LET i == CHOOSE k \in 1..Len(text) :
                      text[k] = "U+00E9" /\ \A j \in 1..(k - 1) : text[j] # "U+00E9"
         IN  SubSeq(text, 1, i - 1) \o <<"xC3", "xA9">>
                 \o Utf8Bytes(SubSeq(text, i + 1, Len(text)))

\* the data line of a frame whose usage holds U+00E9, with no final newline
Line_UsageE == DataPrefix \o Utf8Bytes(JSONStringify(Obj("usage" :> UsageE)))

\* that line cut between the two bytes of U+00E9
Chunk_SplitHead ==
    SubSeq(Line_UsageE, 1, CHOOSE i \in 1..Len(Line_UsageE) : Line_UsageE[i] = "xC3")

Chunk_SplitTail ==
    SubSeq(Line_UsageE, Len(Chunk_SplitHead) + 1, Len(Line_UsageE))

\* the sentinel frame
Chunk_Done == <<"d", "a", "t", "a", ":", " ", "[", "D", "O", "N", "E", "]", "\n">>

\* a whole JSON body with a usage object
Chunk_JsonBody == JSONStringify(Obj("usage" :> UsageA))

\* a whole JSON body whose usage counts no completion token
Chunk_ZeroBody == JSONStringify(Obj("usage" :> UsageZero))

\* the chunks the upstream of the model sends
Chunks ==
    { Chunk_UsageFrame, Chunk_SplitHead, Chunk_SplitTail, Chunk_Done, Chunk_JsonBody,
      Chunk_ZeroBody }

\* err.message of the errors of the upstream request: a reset, and an Error
\* with no message
ReqErrorMessages == {<<"r", "e", "a", "d", " ", "E", "C", "O", "N", "N", "R", "E", "S", "E", "T">>, <<>>}

\* err.message of the error of an upstream response cut short
ResErrorMessages == {<<"a", "b", "o", "r", "t", "e", "d">>}

-----------------------------------------------------------------------------
(* State *)

\* the request slots
Reqs == {"r1", "r2"}

\* the most 'data' events of one upstream response
MaxChunks == 2

\* the most runs of the 'aborted' handler of one request
MaxAborts == 2

\* the most ticks of the clock
MaxTicks == 2

\* the milliseconds of one tick of the clock
TickMs == 1500

VARIABLES
    keysFile,   \* the allowed keys file (ALLOWED_KEYS_FILE)
    todo,       \* the request slots whose request has not arrived
    call,       \* per request: the closure of one run of handleProxy
    res,        \* per request: the client response
    up,         \* per request: the upstream request and response
    log,        \* the lines appended to LOG_FILE, as the logged objects
    sse,        \* the harness state of the usage extractor run on its own
    now         \* Date.now(), in milliseconds since the app started

vars == <<keysFile, todo, call, res, up, log, sse, now>>

\* the variables of one run of handleProxy (lines 65-67, 103-109, 147) and
\* what the run has done: pc is "none" before the request arrives, then
\* "health", "rejected" or "proxying"; listening is whether the handlers of
\* upstreamRes are registered; aborts counts the runs of the 'aborted' handler
\* and abortDestroys its calls of upstreamReq.destroy()
CallInit ==
    [pc |-> "none", req |-> NoRequest, apiKey |-> Null, clientAborted |-> FALSE,
     usage |-> Null, buffer |-> <<>>, isStreaming |-> FALSE, responseBody |-> <<>>,
     contentType |-> <<>>, listening |-> FALSE,
     aborts |-> 0, abortDestroys |-> 0, requestStartTime |-> 0]

\* upstreamReq and upstreamRes: phase is "none", "pending" (request sent),
\* "response" (the response callback has run), "ended" ('end' emitted),
\* "errored" (request 'error' before a response), "aborting" (request 'error'
\* during the body, the response's 'error' still to come), "closed"
UpInit ==
    [phase |-> "none", request |-> NoOutbound, destroyed |-> FALSE,
     resDestroyed |-> FALSE, head |-> NoHead, received |-> <<>>]

\* the extractor harness: the stream, the bytes fed so far, the closure's
\* buffer and usage, whether 'end' has run, whether every cut so far fell
\* between two characters, and the text of the chunks as chunk.toString()
\* gave it
SseIdle ==
    [text |-> <<>>, pos |-> 0, buffer |-> <<>>, usage |-> Null, done |-> FALSE,
     aligned |-> TRUE, decoded |-> <<>>]

InitWith(slots) ==
    /\ keysFile \in KeyFiles
    /\ todo = slots
    /\ call = [r \in Reqs |-> CallInit]
    /\ res = [r \in Reqs |-> ResInit]
    /\ up = [r \in Reqs |-> UpInit]
    /\ log = <<>>
    /\ sse = SseIdle
    /\ now = 0

Init == InitWith({"r1"})

-----------------------------------------------------------------------------
(* MetricsLog *)

\* writeLog(entry): log holds the entries handed to fs.appendFileSync, in
\* order; a failing append is caught (lines 25-27) and changes nothing else
writeLog(file, entry) == Append(file, entry)

\* Math.round(num / den) for num >= 0 and den > 0: halves go up
MathRound(num, den) == (2 * num + den) \div (2 * den)

\* lines 157-160, in whole numbers: requestMs is requestSeconds * 1000 and the
\* result is tokensPerSecond * 100
tokensPerSecond(usage, requestMs) ==
    LET completion_tokens == Get(usage, "completion_tokens")
    IN  IF Truthy(completion_tokens) /\ requestMs > 0
        THEN Num(MathRound(completion_tokens.v * 100000, requestMs))
        ELSE Null

\* lines 161-167, request_seconds in milliseconds: req names the request that logs the entry (bookkeeping, not
\* a field of the line); the timestamp is left out
logEntry(r, usage) ==
    [req |-> r,
     apikey |-> IF Truthy(call[r].apiKey) THEN call[r].apiKey ELSE Null,
     request_seconds |-> now - call[r].requestStartTime,
     tokens_per_second |-> tokensPerSecond(usage, now - call[r].requestStartTime),
     usage |-> usage]

\* logMetrics() without the test of `usage`
logMetricsUnguarded(file, r, usage) == writeLog(file, logEntry(r, usage))

\* logMetrics() of request r with the snapshot `usage`
logMetrics(file, r, usage) ==
    IF Truthy(usage) THEN writeLog(file, logEntry(r, usage)) ELSE file

-----------------------------------------------------------------------------
(* Request arrival: routing, and the synchronous part of handleProxy *)

\* the 401 answers of lines 72, 78 and 89
Reject(r, request, message, key) ==
    /\ call' = [call EXCEPT ![r].pc = "rejected", ![r].req = request, ![r].apiKey = key,
                            ![r].requestStartTime = now]
    /\ res' = [res EXCEPT ![r] =
                  ResJson(ResStatus(res[r], 401), ErrorPayload(message, Type_InvalidRequest))]
    /\ UNCHANGED up

\* lines 93-132 and 298-302: the outbound request is created and sent
Dispatch(r, request, key) ==
    /\ call' = [call EXCEPT ![r].pc = "proxying", ![r].req = request, ![r].apiKey = key,
                            ![r].requestStartTime = now]
    /\ up' = [up EXCEPT ![r].phase = "pending", ![r].request = Outbound(request)]
    /\ UNCHANGED res

handleProxy(r, request) ==
    LET authorization == Header(request.headers, "authorization")
    IN  IF ~Truthy(authorization)
        THEN Reject(r, request, Msg_MissingAuth, Null)
        ELSE LET authMatch == BearerMatch(authorization.v)
                 providedKey == trim(authMatch.group)
             IN  IF ~authMatch.matched
                 THEN Reject(r, request, Msg_InvalidFormat, Null)
                 ELSE IF ~isKeyAllowed(providedKey, keysFile)
                      THEN Reject(r, request, Msg_InvalidKey, Str(providedKey))
                      ELSE Dispatch(r, request, Str(providedKey))

\* app.get('/health'): res.json({ ok: true })
health(r, request) ==
    /\ call' = [call EXCEPT ![r].pc = "health", ![r].req = request]
    /\ res' = [res EXCEPT ![r] = ResJson(res[r], Obj("ok" :> Bool(TRUE)))]
    /\ UNCHANGED up

\* a request arrives and is routed
Arrive(r, requests) ==
    /\ r \in todo
    /\ todo' = todo \ {r}
    /\ \E request \in requests :
          IF Route(request) = "health" THEN health(r, request)
          ELSE handleProxy(r, request)
    /\ UNCHANGED <<keysFile, log, sse, now>>

\* the operator edits the allowed keys file; its content matters only to
\* requests that have yet to arrive
EditKeysFile ==
    /\ todo # {}
    /\ keysFile' \in KeyFiles \ {keysFile}
    /\ UNCHANGED <<todo, call, res, up, log, sse, now>>

-----------------------------------------------------------------------------
(* The upstream response callback and the handlers it registers *)

\* lines 141-145 without the test of the header's name
CopyHeadersAll(response, headers) ==
    [response EXCEPT !.headers = headers @@ response.headers]

\* lines 141-145: every header but content-encoding is set on the response
CopyHeaders(response, headers) ==
    [response EXCEPT !.headers =
        [k \in {n \in DOMAIN headers : n # "content-encoding"} |-> headers[k]]
        @@ response.headers]

\* lines 147-153: the streaming headers when the content type is an event stream
StreamHeaders(response, contentType) ==
    IF includes(contentType, Str_EventStream)
    THEN ResSetHeader(ResSetHeader(ResSetHeader(response,
            "content-type", Str_EventStreamUtf8),
            "cache-control", Str_NoCache),
            "connection", Str_KeepAlive)
    ELSE response

\* the 'response' event of upstreamReq: lines 134-153; the handlers of lines
\* 193-260 are registered only when the client has not disconnected
UpstreamResponse(r, heads) ==
    /\ up[r].phase = "pending"
    /\ \E head \in heads :
          LET headers == ParsedHeaders(head.rawHeaders)
              contentType == OrElse(Header(headers, "content-type"), <<>>)
          IN  IF call[r].clientAborted
              THEN /\ up' = [up EXCEPT ![r].phase = "response", ![r].head = head,
                                       ![r].resDestroyed = TRUE]
                   /\ UNCHANGED <<call, res>>
              ELSE /\ up' = [up EXCEPT ![r].phase = "response", ![r].head = head]
                   /\ res' = [res EXCEPT ![r] =
                                 StreamHeaders(
                                     CopyHeaders(
                                         ResStatus(res[r],
                                             IF head.statusCode # 0 THEN head.statusCode ELSE 502),
                                         headers),
                                     contentType)]
                   /\ call' = [call EXCEPT ![r].contentType = contentType,
                                           ![r].isStreaming = includes(contentType, Str_EventStream),
                                           ![r].listening = TRUE]
    /\ UNCHANGED <<keysFile, todo, log, sse, now>>

\* the streaming 'data' handler without the test of clientAborted
StreamingDataUnguarded(r, chunk) ==
    LET st == processChunkForLogging(call[r].buffer, call[r].usage, chunk)
    IN  /\ call' = [call EXCEPT ![r].buffer = st.buffer, ![r].usage = st.usage]
        /\ res' = [res EXCEPT ![r] = ResWrite(res[r], chunk)]

\* the streaming 'data' handler, lines 193-198
StreamingData(r, chunk) ==
    IF ~call[r].clientAborted
    THEN LET st == processChunkForLogging(call[r].buffer, call[r].usage, chunk)
         IN  /\ call' = [call EXCEPT ![r].buffer = st.buffer, ![r].usage = st.usage]
             /\ res' = [res EXCEPT ![r] = ResWrite(res[r], chunk)]
    ELSE UNCHANGED <<call, res>>

\* the buffered 'data' handler writing the decoded text of the chunk
BufferedDataDecoded(r, chunk) ==
    IF ~call[r].clientAborted
    THEN /\ res' = [res EXCEPT ![r] = ResWrite(res[r], toString(chunk))]
         /\ call' = [call EXCEPT ![r].responseBody = @ \o toString(chunk)]
    ELSE UNCHANGED <<call, res>>

\* the buffered 'data' handler, lines 224-229
BufferedData(r, chunk) ==
    IF ~call[r].clientAborted
    THEN /\ res' = [res EXCEPT ![r] = ResWrite(res[r], chunk)]
         /\ call' = [call EXCEPT ![r].responseBody = @ \o toString(chunk)]
    ELSE UNCHANGED <<call, res>>

\* a 'data' event of upstreamRes
UpstreamData(r, chunks) ==
    /\ up[r].phase = "response"
    /\ Len(up[r].received) < MaxChunks
    /\ \E chunk \in chunks :
          /\ up' = [up EXCEPT ![r].received = Append(@, chunk)]
          /\ IF ~call[r].listening THEN UNCHANGED <<call, res>>
             ELSE IF call[r].isStreaming THEN StreamingData(r, chunk)
             ELSE BufferedData(r, chunk)
    /\ UNCHANGED <<keysFile, todo, log, sse, now>>

\* the streaming 'end' handler, lines 200-221
StreamingEnd(r) ==
    IF ~call[r].clientAborted
    THEN LET usage == FlushBuffer(call[r].buffer, call[r].usage)
         IN  /\ call' = [call EXCEPT ![r].usage = usage]
             /\ log' = logMetrics(log, r, usage)
             /\ res' = [res EXCEPT ![r] = ResEnd(res[r])]
    ELSE UNCHANGED <<call, res, log>>

\* the buffered 'end' handler leaving the client response open
BufferedEndNoEnd(r) ==
    IF ~call[r].clientAborted
    THEN LET found == BufferedUsage(call[r].responseBody)
         IN  /\ res' = res
             /\ call' = [call EXCEPT ![r].usage = IF Truthy(found) THEN found ELSE @]
             /\ log' = logMetrics(log, r, found)
    ELSE UNCHANGED <<call, res, log>>

\* the buffered 'end' handler, lines 231-243
BufferedEnd(r) ==
    IF ~call[r].clientAborted
    THEN LET found == BufferedUsage(call[r].responseBody)
         IN  /\ res' = [res EXCEPT ![r] = ResEnd(res[r])]
             /\ call' = [call EXCEPT ![r].usage = IF Truthy(found) THEN found ELSE @]
             /\ log' = logMetrics(log, r, found)
    ELSE UNCHANGED <<call, res, log>>

\* the 'end' event of upstreamRes
UpstreamEnd(r) ==
    /\ up[r].phase = "response"
    /\ up' = [up EXCEPT ![r].phase = "ended"]
    /\ IF ~call[r].listening THEN UNCHANGED <<call, res, log>>
       ELSE IF call[r].isStreaming THEN StreamingEnd(r)
       ELSE BufferedEnd(r)
    /\ UNCHANGED <<keysFile, todo, sse, now>>

-----------------------------------------------------------------------------
(* Errors, timeout and client disconnect *)

\* the two writes of an SSE error frame, lines 256-257 and 282-283
WriteErrorFrame(response, payload) ==
    ResWrite(ResWrite(response, Str_EventError),
             DataPrefix \o JSONStringify(payload) \o <<"\n", "\n">>)

\* upstreamRes.on('error') writing the frame whatever the content type
ResponseErrorHandlerAlwaysFrame(r, message) ==
    IF call[r].clientAborted THEN res[r]
    ELSE LET payload == ErrorPayload(OrElse(Str(message), Msg_UpstreamResponseError),
                                     Type_ServerError)
         IN  ResEnd(WriteErrorFrame(res[r], payload))

\* upstreamRes.on('error'), lines 246-260, on the client response
ResponseErrorHandler(r, message) ==
    IF call[r].clientAborted THEN res[r]
    ELSE LET payload == ErrorPayload(OrElse(Str(message), Msg_UpstreamResponseError),
                                     Type_ServerError)
         IN  ResEnd(IF includes(call[r].contentType, Str_EventStream)
                    THEN WriteErrorFrame(res[r], payload)
                    ELSE res[r])

\* upstreamReq.on('error') leaving a started response open
RequestErrorHandlerNoEnd(r, message) ==
    IF call[r].clientAborted THEN res[r]
    ELSE LET payload == ErrorPayload(OrElse(Str(message), Msg_UpstreamRequestError),
                                     Type_ServerError)
             contentType == ResGetHeader(res[r], "content-type")
         IN  IF ~res[r].headersSent
             THEN ResJson(ResStatus(res[r], 502), payload)
             ELSE IF Truthy(contentType) /\ includes(contentType.v, Str_EventStream)
                  THEN WriteErrorFrame(res[r], payload)
                  ELSE res[r]

\* upstreamReq.on('error'), lines 269-287, on the client response
RequestErrorHandler(r, message) ==
    IF call[r].clientAborted THEN res[r]
    ELSE LET payload == ErrorPayload(OrElse(Str(message), Msg_UpstreamRequestError),
                                     Type_ServerError)
             contentType == ResGetHeader(res[r], "content-type")
         IN  IF ~res[r].headersSent
             THEN ResJson(ResStatus(res[r], 502), payload)
             ELSE ResEnd(IF Truthy(contentType) /\ includes(contentType.v, Str_EventStream)
                         THEN WriteErrorFrame(res[r], payload)
                         ELSE res[r])

\* the phase after the 'error' event of upstreamReq: before a response the
\* request is over, during the body the response's own 'error' follows
AfterRequestError(phase) == IF phase = "pending" THEN "errored" ELSE "aborting"

\* the 'error' event of upstreamRes: the upstream closed the connection
\* before the body was complete, or the request failed during the body
UpstreamResError(r) ==
    /\ up[r].phase \in {"response", "aborting"}
    /\ up' = [up EXCEPT ![r].phase = "closed"]
    /\ \E message \in ResErrorMessages :
          res' = [res EXCEPT ![r] =
                     IF call[r].listening THEN ResponseErrorHandler(r, message) ELSE @]
    /\ UNCHANGED <<keysFile, todo, call, log, sse, now>>

\* the 'error' event of upstreamReq for a failure of the connection
UpstreamReqError(r) ==
    /\ up[r].phase \in {"pending", "response"}
    /\ up' = [up EXCEPT ![r].phase = AfterRequestError(@)]
    /\ \E message \in ReqErrorMessages :
          res' = [res EXCEPT ![r] = RequestErrorHandler(r, message)]
    /\ UNCHANGED <<keysFile, todo, call, log, sse, now>>

\* the 'timeout' handler calling upstreamReq.destroy() with no error: no
\* 'error' event follows
UpstreamTimeoutSilent(r) ==
    /\ up[r].phase \in {"pending", "response"}
    /\ IF up[r].destroyed
       THEN UNCHANGED <<up, res>>
       ELSE /\ up' = [up EXCEPT ![r].destroyed = TRUE, ![r].phase = "closed"]
            /\ UNCHANGED res
    /\ UNCHANGED <<keysFile, todo, call, log, sse, now>>

\* the 'timeout' event of upstreamReq, lines 264-267: destroy(err) of a request
\* not yet destroyed emits 'error' with that err before any other event is
\* handled; on a destroyed request it does nothing
UpstreamTimeout(r) ==
    /\ up[r].phase \in {"pending", "response"}
    /\ IF up[r].destroyed
       THEN UNCHANGED <<up, res>>
       ELSE /\ up' = [up EXCEPT ![r].destroyed = TRUE, ![r].phase = AfterRequestError(@)]
            /\ res' = [res EXCEPT ![r] = RequestErrorHandler(r, Msg_UpstreamTimeout)]
    /\ UNCHANGED <<keysFile, todo, call, log, sse, now>>

\* req.on('aborted') with clientAborted one flag of the module, shared by all
\* requests
abortedHandlerShared(r) ==
    /\ call' = [q \in Reqs |->
                   IF q = r
                   THEN [call[q] EXCEPT !.clientAborted = TRUE,
                                        !.aborts = @ + 1,
                                        !.abortDestroys = IF up[r].destroyed THEN @ ELSE @ + 1]
                   ELSE [call[q] EXCEPT !.clientAborted = TRUE]]
    /\ up' = [up EXCEPT ![r].destroyed = TRUE]

\* req.on('aborted') without the test of upstreamReq.destroyed
abortedHandlerNoCheck(r) ==
    /\ call' = [call EXCEPT ![r].clientAborted = TRUE,
                            ![r].aborts = @ + 1,
                            ![r].abortDestroys = @ + 1]
    /\ up' = [up EXCEPT ![r].destroyed = TRUE]

\* req.on('aborted'), lines 289-296
abortedHandler(r) ==
    /\ call' = [call EXCEPT ![r].clientAborted = TRUE,
                            ![r].aborts = @ + 1,
                            ![r].abortDestroys = IF up[r].destroyed THEN @ ELSE @ + 1]
    /\ up' = [up EXCEPT ![r].destroyed = TRUE]

\* the 'aborted' event of the inbound request, or a further run of its handler
ClientAborted(r) ==
    /\ call[r].pc = "proxying"
    /\ call[r].aborts < MaxAborts
    /\ abortedHandler(r)
    /\ UNCHANGED <<keysFile, todo, res, log, sse, now>>

\* time passes while a request is in flight
Tick ==
    /\ \E r \in Reqs : up[r].phase \in {"pending", "response"}
    /\ now < MaxTicks * TickMs
    /\ now' = now + TickMs
    /\ UNCHANGED <<keysFile, todo, call, res, up, log, sse>>

-----------------------------------------------------------------------------
(* The proxy *)

Next ==
    \/ EditKeysFile
    \/ Tick
    \/ \E r \in Reqs :
          \/ Arrive(r, Requests)
          \/ UpstreamResponse(r, UpstreamHeads)
          \/ UpstreamData(r, Chunks)
          \/ UpstreamEnd(r)
          \/ UpstreamResError(r)
          \/ UpstreamReqError(r)
          \/ UpstreamTimeout(r)
          \/ ClientAborted(r)

Spec == Init /\ [][Next]_vars

-----------------------------------------------------------------------------
(* The usage extractor on its own: one SSE stream, cut into chunks anywhere *)

Frame(json) == DataPrefix \o Utf8Bytes(json) \o <<"\n", "\n">>

\* the SSE bodies fed to the extractor: usage then [DONE]; a frame without
\* usage, then usage twice, the last line unterminated; a usage with a
\* two-byte character; a null usage after a usage, with CRLF line ends
StreamTexts ==
    { Frame(JSONStringify(Obj("usage" :> UsageA))) \o Frame(Str_Done),
      Frame(JSONStringify(Obj("id" :> Num(1)))) \o Frame(JSONStringify(Obj("usage" :> UsageE)))
          \o DataPrefix \o JSONStringify(Obj("usage" :> UsageA)),
      Frame(JSONStringify(Obj("usage" :> UsageE))) \o Frame(Str_Done),
      DataPrefix \o JSONStringify(Obj("usage" :> UsageA)) \o <<"\r", "\n", "\r", "\n">>
          \o DataPrefix \o JSONStringify(Obj("usage" :> Null)) \o <<"\r", "\n">> }

SseInit ==
    /\ keysFile = FileMissing
    /\ todo = {}
    /\ call = [r \in Reqs |-> CallInit]
    /\ res = [r \in Reqs |-> ResInit]
    /\ up = [r \in Reqs |-> UpInit]
    /\ log = <<>>
    /\ \E text \in StreamTexts : sse = [SseIdle EXCEPT !.text = text]
    /\ now = 0

\* whether a cut after byte n of `bytes` separates the two bytes of U+00E9
InsideCharacter(bytes, n) ==
    n >= 1 /\ n < Len(bytes) /\ bytes[n] = "xC3" /\ bytes[n + 1] = "xA9"

\* one 'data' event: the next n bytes go through processChunkForLogging
SseData ==
    /\ ~sse.done
    /\ \E n \in 1..(Len(sse.text) - sse.pos) :
          /\ LET st == processChunkForLogging(sse.buffer, sse.usage,
                           SubSeq(sse.text, sse.pos + 1, sse.pos + n))
             IN  sse' = [sse EXCEPT !.pos = @ + n, !.buffer = st.buffer, !.usage = st.usage,
                                    !.aligned = @ /\ ~InsideCharacter(sse.text, sse.pos + n),
                                    !.decoded = @ \o toString(SubSeq(sse.text, sse.pos + 1,
                                                                     sse.pos + n))]
    /\ UNCHANGED <<keysFile, todo, call, res, up, log, now>>

\* the 'end' event: the carry-over buffer is flushed
SseEnd ==
    /\ ~sse.done
    /\ sse.pos = Len(sse.text)
    /\ sse' = [sse EXCEPT !.usage = FlushBuffer(sse.buffer, sse.usage), !.done = TRUE]
    /\ UNCHANGED <<keysFile, todo, call, res, up, log, now>>

NextSSE == SseData \/ SseEnd

SpecSSE == SseInit /\ [][NextSSE]_vars

-----------------------------------------------------------------------------
(* Properties of the authorization gate *)

\* whether a header value is the scheme Bearer (in any letter case, as HTTP
\* reads scheme names), white space, and a token that is not empty
HasBearerForm(value) ==
    /\ Len(value) >= 8
    /\ toLowerCase(SubSeq(value, 1, 6)) = <<"b", "e", "a", "r", "e", "r">>
    /\ \E k \in 7..(Len(value) - 1) :
          /\ \A i \in 7..k : value[i] \in WhiteSpace
          /\ \A i \in (k + 1)..Len(value) : value[i] \notin LineTerminators

\* the request of slot r has arrived and went to the proxy handler
Proxied(r) == call[r].pc \in {"rejected", "proxying"}

\* the Authorization header of the request of slot r is absent or malformed
MalformedAuth(r) ==
    \/ "authorization" \notin DOMAIN call[r].req.headers
    \/ ~HasBearerForm(call[r].req.headers["authorization"])

\* the client response is the finished JSON answer `payload` with status `code`
AnsweredWith(response, code, payload) ==
    /\ response.statusCode = code
    /\ response.body = <<JSONStringify(payload)>>
    /\ response.ended

\* C1: a request handled by the proxy whose Authorization header is absent or
\* is not "Bearer <token>" is answered 401 with the body
\* {error: {message, type: "invalid_request_error"}}, and no upstream request
\* is ever created for it.
C1_MalformedAuthRejected ==
    \A r \in Reqs :
        Proxied(r) /\ MalformedAuth(r) =>
            /\ call[r].pc = "rejected"
            /\ \E message \in {Msg_MissingAuth, Msg_InvalidFormat} :
                  AnsweredWith(res[r], 401, ErrorPayload(message, Type_InvalidRequest))
            /\ up[r] = UpInit

\* a header that is present but names another scheme has been answered 401
C1_Witness ==
    \E r \in Reqs :
        /\ call[r].pc = "rejected"
        /\ "authorization" \in DOMAIN call[r].req.headers
        /\ call[r].req.headers["authorization"] # <<>>
        /\ MalformedAuth(r)
        /\ res[r].statusCode = 401

\* the token of a well-formed Authorization header: what follows the scheme,
\* without the white space around it
TokenOf(request) == trim(SubSeq(request.headers["authorization"], 7,
                                Len(request.headers["authorization"])))

\* whether `token` is a valid key of the file: the file can be read and one of
\* its lines, white space aside, is the token, is not blank and is no comment
ValidKey(token, file) ==
    /\ file.exists
    /\ file.readable
    /\ token # <<>>
    /\ token[1] # "#"
    /\ \E i \in 1..Len(split(file.content, "\n")) :
          trim(split(file.content, "\n")[i]) = token

\* the usage records logged by the request of slot r
RecordsOf(file, r) == SelectSeq(file, LAMBDA entry : entry.req = r)

\* the step in which the request of slot r arrives
Arrives(r) == call[r].pc = "none" /\ call'[r].pc # "none"

\* C2: a request handled by the proxy whose Authorization header is well
\* formed but whose token is not a valid key of the allowed keys file as the
\* file is when the request arrives (a missing or unreadable file has no valid
\* key) is answered 401 with the message "Invalid API key"; no upstream
\* request is created and no usage record is appended for it, then or later.
C2_InvalidKeyRejected ==
    /\ [][\A r \in Reqs :
            /\ Arrives(r)
            /\ call'[r].pc \in {"rejected", "proxying"}
            /\ "authorization" \in DOMAIN call'[r].req.headers
            /\ HasBearerForm(call'[r].req.headers["authorization"])
            /\ ~ValidKey(TokenOf(call'[r].req), keysFile)
            => /\ call'[r].pc = "rejected"
               /\ AnsweredWith(res'[r], 401, ErrorPayload(Msg_InvalidKey, Type_InvalidRequest))
               /\ up'[r] = UpInit
               /\ log' = log]_vars
    /\ [](\A r \in Reqs :
            call[r].pc = "rejected" => up[r] = UpInit /\ RecordsOf(log, r) = <<>>)

\* a well-formed request whose token is a comment line of the file, or one
\* sent while the file cannot be read, has been answered "Invalid API key"
C2_Witness ==
    \E r \in Reqs :
        /\ call[r].pc = "rejected"
        /\ ~MalformedAuth(r)
        /\ \/ keysFile = File_A /\ TokenOf(call[r].req) = <<"#", "c">>
           \/ keysFile = FileUnreadable
        /\ AnsweredWith(res[r], 401, ErrorPayload(Msg_InvalidKey, Type_InvalidRequest))

-----------------------------------------------------------------------------
(* Properties of routing *)

\* C3: a GET request for /health is answered in place with status 200 and the
\* JSON body {"ok": true}, without authorization and without being sent
\* upstream; every other request goes to the proxy handler.
C3_HealthAnsweredInPlace ==
    \A r \in Reqs :
        call[r].pc # "none" =>
            IF call[r].req.method = "GET" /\ call[r].req.originalUrl = "/health"
            THEN /\ call[r].pc = "health"
                 /\ AnsweredWith(res[r], 200, Obj("ok" :> Bool(TRUE)))
                 /\ up[r] = UpInit
            ELSE Proxied(r)

-----------------------------------------------------------------------------
(* Properties of usage logging *)

\* the bytes of a sequence of chunks, one after another
Concat(chunks) ==
    LET RECURSIVE Cat(_)
        Cat(i) == IF i > Len(chunks) THEN <<>> ELSE chunks[i] \o Cat(i + 1)
    IN  Cat(1)

\* the text of the payload the upstream has sent for slot r
PayloadText(r) == toString(Concat(up[r].received))

\* the usage snapshot at the end of a stream that arrives as one chunk
OneChunkUsage(bytes) ==
    LET st == processChunkForLogging(<<>>, Null, bytes)
    IN  FlushBuffer(st.buffer, st.usage)

\* the usage object of the payload of slot r: of the last data frame that has
\* one when the response is an event stream, of the JSON body otherwise
PayloadUsage(r) ==
    IF call[r].isStreaming
    THEN OneChunkUsage(Concat(up[r].received))
    ELSE BufferedUsage(PayloadText(r))

\* the upstream body of slot r reached its end with the client connected
CompletedConnected(r) == up[r].phase = "ended" /\ res[r].ended

\* C4: a request logs at most one usage record; when the upstream body reaches
\* its end with the client still connected and the payload carried a usage
\* object, it logs exactly one, holding the token the client presented and the
\* usage object of the payload.
C4_OneUsageRecord ==
    \A r \in Reqs :
        /\ Len(RecordsOf(log, r)) <= 1
        /\ CompletedConnected(r) /\ Truthy(PayloadUsage(r)) =>
              /\ Len(RecordsOf(log, r)) = 1
              /\ RecordsOf(log, r)[1].apikey = Str(TokenOf(call[r].req))
              /\ RecordsOf(log, r)[1].usage = PayloadUsage(r)

\* the same with any usage object in the record: the count and the key hold
\* whatever the chunking
OneRecordWithTheKey ==
    \A r \in Reqs :
        /\ Len(RecordsOf(log, r)) <= 1
        /\ CompletedConnected(r) /\ Truthy(PayloadUsage(r)) =>
              /\ Len(RecordsOf(log, r)) = 1
              /\ RecordsOf(log, r)[1].apikey = Str(TokenOf(call[r].req))
              /\ Truthy(RecordsOf(log, r)[1].usage)

\* the same for payloads that no chunk boundary cuts inside a character
OneUsageRecordOfWholeCharacters ==
    \A r \in Reqs :
        (\A i \in 1..Len(up[r].received) :
            up[r].received[i] \notin {Chunk_SplitHead, Chunk_SplitTail})
        => /\ Len(RecordsOf(log, r)) <= 1
           /\ CompletedConnected(r) /\ Truthy(PayloadUsage(r)) =>
                 /\ Len(RecordsOf(log, r)) = 1
                 /\ RecordsOf(log, r)[1].apikey = Str(TokenOf(call[r].req))
                 /\ RecordsOf(log, r)[1].usage = PayloadUsage(r)

\* whether `text` is JSON for an object that has a usage field
JsonWithUsage(text) ==
    /\ JSONParse(text).ok
    /\ JSONParse(text).value.t = "object"
    /\ "usage" \in DOMAIN JSONParse(text).value.v

\* whether the payload of slot r has a usage field: in a data frame of an
\* event stream, or in the JSON body otherwise
HasUsageField(r) ==
    IF call[r].isStreaming
    THEN \E i \in 1..Len(split(PayloadText(r), "\n")) :
            LET line == trim(split(PayloadText(r), "\n")[i])
            IN  startsWith(line, <<"d", "a", "t", "a", ":">>)
                /\ JsonWithUsage(SubSeq(line, 6, Len(line)))
    ELSE JsonWithUsage(PayloadText(r))

\* C5: when no frame of a streamed response and no buffered body has a usage
\* field, the request logs no usage record, whatever the order and the
\* chunking of the payload; a buffered body that is not JSON is one such
\* payload, and it is still relayed whole and the response ended once.
C5_NoUsageNoRecord ==
    \A r \in Reqs :
        /\ ~HasUsageField(r) => RecordsOf(log, r) = <<>>
        /\ /\ CompletedConnected(r)
           /\ ~call[r].isStreaming
           /\ ~JSONParse(PayloadText(r)).ok
           => /\ res[r].body = up[r].received
              /\ res[r].endCalls = 1
              /\ res[r].lateWrites = 0
              /\ RecordsOf(log, r) = <<>>

\* a buffered body that is not JSON has been relayed and ended with no record
C5_Witness ==
    \E r \in Reqs :
        /\ CompletedConnected(r)
        /\ ~call[r].isStreaming
        /\ up[r].received # <<>>
        /\ ~JSONParse(PayloadText(r)).ok
        /\ ~HasUsageField(r)
        /\ res[r].body = up[r].received
        /\ log = <<>>

-----------------------------------------------------------------------------
(* Properties of client disconnect *)

\* C6: once the disconnect of the client has been observed for a request,
\* before the upstream headers, while relaying or between the last chunk and
\* the end, the upstream request is destroyed (and so is a response that
\* arrives afterwards), and no later upstream event (headers, data, end, error
\* or timeout) writes to the client response or appends a usage record.
C6_DisconnectSilences ==
    /\ [](\A r \in Reqs :
            call[r].clientAborted =>
                /\ up[r].destroyed
                /\ (up[r].head # NoHead /\ ~call[r].listening => up[r].resDestroyed))
    /\ [][\A r \in Reqs :
            call[r].clientAborted =>
                /\ res'[r] = res[r]
                /\ RecordsOf(log', r) = RecordsOf(log, r)]_vars

\* after a disconnect while relaying, chunks and the end arrived from the
\* upstream and none reached the client response
C6_Witness ==
    \E r \in Reqs :
        /\ call[r].clientAborted
        /\ call[r].listening
        /\ up[r].phase = "ended"
        /\ res[r].body # <<>>
        /\ Len(up[r].received) > Len(res[r].body)
        /\ ~res[r].ended
        /\ RecordsOf(log, r) = <<>>

\* C7: a further run of the 'aborted' handler of a request, also after the
\* request has completed, changes nothing: the upstream request is not
\* destroyed a second time, nothing is written and no second usage record is
\* appended.
C7_DisconnectIdempotent ==
    /\ [](\A r \in Reqs :
            call[r].abortDestroys <= 1 /\ Len(RecordsOf(log, r)) <= 1)
    /\ [][\A r \in Reqs :
            call[r].aborts >= 1 /\ call'[r].aborts = call[r].aborts + 1 =>
                /\ call'[r] = [call[r] EXCEPT !.aborts = @ + 1]
                /\ up' = up
                /\ res' = res
                /\ log' = log]_vars

\* the handler has run twice for a request that had completed and logged
C7_Witness ==
    \E r \in Reqs :
        /\ call[r].aborts >= 2
        /\ call[r].abortDestroys = 1
        /\ up[r].phase = "ended"
        /\ res[r].ended
        /\ Len(RecordsOf(log, r)) = 1

-----------------------------------------------------------------------------
(* Properties of the usage extractor *)

\* C8: the usage snapshot at the end of an event stream depends on the text of
\* the stream only: however the stream is cut into chunks, inside a data line
\* and with a last line that has no newline included, the extractor yields the
\* usage object it yields when the stream is fed as one chunk.
C8_ChunkBoundaryIndependent ==
    sse.done => sse.usage = OneChunkUsage(sse.text)

\* the same for the ways of cutting the stream that cut no character in two
BoundaryIndependentOnWholeCharacters ==
    sse.done /\ sse.aligned => sse.usage = OneChunkUsage(sse.text)

\* a stream cut inside a data line, between characters, has reached its end
\* with a usage object
CutInsideLineReached ==
    /\ sse.done
    /\ sse.aligned
    /\ Truthy(sse.usage)
    /\ sse.text = Frame(JSONStringify(Obj("usage" :> UsageE))) \o Frame(Str_Done)

-----------------------------------------------------------------------------
(* Properties of relaying and of upstream errors *)

IsPrefix(s, t) == Len(s) <= Len(t) /\ s = SubSeq(t, 1, Len(s))

\* the messages an upstream failure can carry to the client
ErrorMessages ==
    {Msg_UpstreamRequestError, Msg_UpstreamResponseError, Msg_UpstreamTimeout}
        \cup (ReqErrorMessages \ {<<>>}) \cup ResErrorMessages

\* the two writes of an SSE error frame for `message`
ErrorFrame(message) ==
    << Str_EventError,
       DataPrefix \o JSONStringify(ErrorPayload(message, Type_ServerError)) \o <<"\n", "\n">> >>

\* what the proxy itself writes after an upstream failure: an SSE error frame
\* or a JSON error body
ErrorOutputs ==
    {ErrorFrame(message) : message \in ErrorMessages}
        \cup {<<JSONStringify(ErrorPayload(message, Type_ServerError))>> : message \in ErrorMessages}

\* whether the client response is declared an event stream
IsEventStream(response) ==
    /\ "content-type" \in DOMAIN response.headers
    /\ includes(response.headers["content-type"], Str_EventStream)

\* the upstream of slot r has failed
UpstreamFailed(r) == up[r].phase \in {"errored", "aborting", "closed"}

\* C9 as stated: in streaming and in buffered mode the chunks written to the
\* client response are at every moment a prefix of the chunks received from
\* the upstream, in order and unmodified, and the two are equal when the
\* request completes normally.
C9_WrittenIsPrefixOfReceived ==
    \A r \in Reqs :
        call[r].listening =>
            /\ IsPrefix(res[r].body, up[r].received)
            /\ CompletedConnected(r) => res[r].body = up[r].received

\* C9: in streaming and in buffered mode the chunks written to the client
\* response are at every moment a prefix of the chunks received from the
\* upstream, in order and unmodified, followed, only after an upstream
\* failure, by the one error output of the proxy (an SSE error frame or the
\* 502 JSON body); when the request completes normally the written and the
\* received chunks are equal.
C9_WrittenIsPrefixThenErrorOutput ==
    \A r \in Reqs :
        call[r].listening =>
            /\ \/ IsPrefix(res[r].body, up[r].received)
               \/ /\ UpstreamFailed(r)
                  /\ \E k \in 0..Len(res[r].body) :
                        /\ IsPrefix(SubSeq(res[r].body, 1, k), up[r].received)
                        /\ SubSeq(res[r].body, k + 1, Len(res[r].body)) \in ErrorOutputs
            /\ CompletedConnected(r) => res[r].body = up[r].received

\* chunks, one of them ending inside a character, have been relayed as they
\* came, and the error frame of an upstream failure has followed them
C9_Witness ==
    \E r \in Reqs :
        /\ call[r].listening
        /\ UpstreamFailed(r)
        /\ \E i \in 1..Len(up[r].received) : up[r].received[i] = Chunk_SplitHead
        /\ \E message \in ErrorMessages :
              res[r].body = up[r].received \o ErrorFrame(message)

\* C10: when the upstream request fails with a connection error and the
\* client has not disconnected, a response not yet started gets status 502 and
\* the body {error: {message, type: "server_error"}}; a started response gets
\* an SSE error frame with the same payload when it is an event stream and
\* nothing otherwise, and in both started cases the response is then ended.
C10_RequestErrorAnswered ==
    [][\A r \in Reqs :
          /\ up[r].phase \in {"pending", "response"}
          /\ up'[r].phase \in {"errored", "aborting"}
          /\ ~call[r].clientAborted
          => \E message \in ErrorMessages :
                IF ~res[r].headersSent
                THEN /\ res'[r].statusCode = 502
                     /\ res'[r].body = res[r].body
                            \o <<JSONStringify(ErrorPayload(message, Type_ServerError))>>
                     /\ res'[r].ended
                ELSE /\ res'[r].statusCode = res[r].statusCode
                     /\ res'[r].body =
                            IF IsEventStream(res[r])
                            THEN res[r].body \o ErrorFrame(message)
                            ELSE res[r].body
                     /\ res'[r].ended
                     /\ res'[r].endCalls = 1]_vars

\* the request failed in the middle of an event stream and the frame was
\* written after the relayed chunks
C10_Witness ==
    \E r \in Reqs :
        /\ up[r].phase = "aborting"
        /\ ~call[r].clientAborted
        /\ call[r].isStreaming
        /\ up[r].received # <<>>
        /\ res[r].ended
        /\ Len(res[r].body) = Len(up[r].received) + 2
        /\ res[r].body[Len(res[r].body) - 1] = Str_EventError

-----------------------------------------------------------------------------
(* Properties of the metrics of a usage record *)

\* whether h hundredths is tokens / (ms / 1000) rounded to two decimals
IsRoundedRate(h, tokens, ms) ==
    LET d == h * ms - tokens * 100000
    IN  2 * (IF d < 0 THEN 0 - d ELSE d) <= ms

\* tokens_per_second of a usage record as the rule gives it, for every count
\* of completion tokens the rule covers
RateAsStated(entry) ==
    LET tokens == Get(entry.usage, "completion_tokens")
    IN  IF tokens.t = "number" /\ tokens.v >= 0 /\ entry.request_seconds > 0
        THEN /\ entry.tokens_per_second.t = "number"
             /\ IsRoundedRate(entry.tokens_per_second.v, tokens.v, entry.request_seconds)
        ELSE entry.tokens_per_second = Null

\* the request time of every record is the time from the arrival of the
\* request to the completion of the body
RequestTimeMeasured ==
    [][/\ \A r \in Reqs : Arrives(r) /\ Proxied(r)' => call'[r].requestStartTime = now
       /\ Len(log') > Len(log) =>
             log'[Len(log')].request_seconds
                 = now - call[log'[Len(log')].req].requestStartTime]_vars

\* C11: tokens_per_second of a usage record is completion_tokens /
\* request_seconds rounded to two decimals whenever the usage has a
\* completion_tokens field (any count from 0 up) and request_seconds > 0, and
\* null otherwise; request_seconds is the time from the arrival of the request
\* to the completion of the body.
C11_TokensPerSecond ==
    /\ [](\A i \in 1..Len(log) : RateAsStated(log[i]))
    /\ RequestTimeMeasured

\* the same for the counts of completion tokens above 0
TokensPerSecondOfPositiveCount ==
    /\ [](\A i \in 1..Len(log) :
            Get(log[i].usage, "completion_tokens") # Num(0) => RateAsStated(log[i]))
    /\ RequestTimeMeasured

\* 5 tokens in 3 seconds have been logged as 1.67 tokens per second
PositiveCountLogged ==
    \E i \in 1..Len(log) :
        /\ log[i].usage = UsageA
        /\ log[i].request_seconds = 2 * TickMs
        /\ log[i].tokens_per_second = Num(167)

-----------------------------------------------------------------------------
(* Two requests, one after the other, around edits of the allowed keys file *)

\* the requests of the clients: the key k1, the key k2, a key of no file
KeyRequests == {ReqChatStream, ReqChatPlain, ReqUnknownKey}

NextKeys ==
    \/ EditKeysFile
    \/ Tick
    \/ \E r \in Reqs :
          \/ Arrive(r, KeyRequests)
          \/ UpstreamResponse(r, {Head_JSON})
          \/ UpstreamEnd(r)

InitKeys == InitWith(Reqs)

SpecKeys == InitKeys /\ [][NextKeys]_vars

-----------------------------------------------------------------------------
(* Properties of the allowed keys file over several requests *)

\* C12: the allowed keys file is consulted as it is when each request arrives:
\* a request presenting a key is authorised exactly when the key is a valid
\* key of the file at that moment, so a key added before the request is
\* accepted without a restart, a key removed before it gets 401 "Invalid API
\* key", and no request is authorised with a key the file has never held.
C12_KeysFileReadAtEachRequest ==
    [][\A r \in Reqs :
          /\ Arrives(r)
          /\ Proxied(r)'
          /\ "authorization" \in DOMAIN call'[r].req.headers
          /\ HasBearerForm(call'[r].req.headers["authorization"])
          => IF ValidKey(TokenOf(call'[r].req), keysFile)
             THEN call'[r].pc = "proxying" /\ up'[r].phase = "pending"
             ELSE /\ call'[r].pc = "rejected"
                  /\ AnsweredWith(res'[r], 401,
                                  ErrorPayload(Msg_InvalidKey, Type_InvalidRequest))]_vars

\* a request with the key k1 was authorised, the key was then removed from the
\* file, and a later request with the same key has been answered 401
C12_Witness ==
    \E r, q \in Reqs :
        /\ call[r].pc = "proxying"
        /\ call[q].pc = "rejected"
        /\ TokenOf(call[r].req) = <<"k", "1">>
        /\ call[q].req = call[r].req
        /\ call[r].requestStartTime < call[q].requestStartTime
        /\ ~ValidKey(<<"k", "1">>, keysFile)

-----------------------------------------------------------------------------
(* Properties of the headers *)

\* the headers the proxy sets on an event stream
EventStreamHeaders ==
    ("content-type" :> Str_EventStreamUtf8)
        @@ ("cache-control" :> Str_NoCache)
        @@ ("connection" :> Str_KeepAlive)

\* whether the upstream response of slot r declares an event stream
UpstreamIsEventStream(r) ==
    \E n \in DOMAIN up[r].head.rawHeaders :
        /\ LowerName(n) = "content-type"
        /\ includes(up[r].head.rawHeaders[n], Str_EventStream)

\* C13: once an upstream response has reached the relaying step, the headers
\* of the client response do not include content-encoding, in whatever letter
\* case the upstream wrote it; every other upstream header is there with its
\* upstream value, except that for an upstream content-type containing
\* text/event-stream the proxy sets content-type "text/event-stream;
\* charset=utf-8", cache-control "no-cache, no-transform" and connection
\* "keep-alive".
C13_HeadersRelayed ==
    \A r \in Reqs :
        call[r].listening =>
            /\ "content-encoding" \notin DOMAIN res[r].headers
            /\ \A n \in DOMAIN up[r].head.rawHeaders :
                  /\ LowerName(n) # "content-encoding"
                  /\ ~(UpstreamIsEventStream(r) /\ LowerName(n) \in DOMAIN EventStreamHeaders)
                  => /\ LowerName(n) \in DOMAIN res[r].headers
                     /\ res[r].headers[LowerName(n)] = up[r].head.rawHeaders[n]
            /\ UpstreamIsEventStream(r) =>
                  \A k \in DOMAIN EventStreamHeaders :
                      k \in DOMAIN res[r].headers /\ res[r].headers[k] = EventStreamHeaders[k]

\* a JSON response has been relayed with its content-type and without its
\* Content-Encoding
C13_Witness ==
    \E r \in Reqs :
        /\ call[r].listening
        /\ up[r].head = Head_JSON
        /\ DOMAIN res[r].headers = {"content-type"}
        /\ res[r].headers["content-type"] = Str_AppJson
        /\ res[r].body # <<>>

\* C14: whenever the JSON body of the inbound request has stream equal to
\* true the accept header of the outbound request is text/event-stream,
\* whatever accept header the client sent; otherwise it is the accept header
\* of the client when there is one; and the outbound authorization header is
\* always "Bearer " and the upstream credential, never the key of the client.
C14_OutboundHeaders ==
    \A r \in Reqs :
        call[r].pc = "proxying" =>
            LET inbound == call[r].req
                outbound == up[r].request.headers
            IN  /\ IF Get(inbound.body, "stream") = Bool(TRUE)
                   THEN outbound["accept"] = Str_EventStream
                   ELSE "accept" \in DOMAIN inbound.headers =>
                            outbound["accept"] = inbound.headers["accept"]
                /\ outbound["authorization"] = Str_Bearer \o OPENAI_API_KEY
                /\ outbound["authorization"] # inbound.headers["authorization"]
                /\ ~includes(outbound["authorization"], TokenOf(inbound))

\* a request with stream true and an accept header of its own has gone out
\* with accept text/event-stream
C14_Witness ==
    \E r \in Reqs :
        /\ call[r].pc = "proxying"
        /\ Get(call[r].req.body, "stream") = Bool(TRUE)
        /\ "accept" \in DOMAIN call[r].req.headers
        /\ call[r].req.headers["accept"] # Str_EventStream
        /\ up[r].request.headers["accept"] = Str_EventStream

\* whether a line, as the extractor decoded it, is a data frame whose JSON
\* has a usage object
UsageFrame(line) ==
    /\ startsWith(line, DataPrefix)
    /\ JSONParse(SubSeq(line, 7, Len(line))).ok
    /\ Truthy(Get(JSONParse(SubSeq(line, 7, Len(line))).value, "usage"))

\* the lines of the stream as the extractor decoded them
DecodedLines == split(sse.decoded, "\n")

\* C15: in an event stream with several data frames that parse to an object
\* with a usage object, the usage snapshot at the end of the stream is the
\* usage of the last of them in arrival order; frames that are [DONE], do not
\* parse or have no usage neither change nor clear the snapshot (and with no
\* usage frame at all the snapshot stays null).
C15_LastUsageFrameWins ==
    sse.done =>
        IF \E i \in 1..Len(DecodedLines) : UsageFrame(DecodedLines[i])
        THEN LET last == CHOOSE i \in 1..Len(DecodedLines) :
                            /\ UsageFrame(DecodedLines[i])
                            /\ \A j \in (i + 1)..Len(DecodedLines) : ~UsageFrame(DecodedLines[j])
             IN  sse.usage = JSONParse(SubSeq(DecodedLines[last], 7,
                                              Len(DecodedLines[last]))).value.v["usage"]
        ELSE sse.usage = Null

\* a stream whose first frame has no usage and which has two usage frames,
\* the last one unterminated, has ended with the usage of the last
C15_Witness ==
    /\ sse.done
    /\ Len(SelectSeq(DecodedLines, UsageFrame)) = 2
    /\ sse.usage = UsageA
    /\ ~UsageFrame(DecodedLines[1])

\* the number of SSE error frames in the body written to a client response
ErrorFrameCount(response) ==
    Cardinality({i \in 1..Len(response.body) : response.body[i] = Str_EventError})

\* the step in which the upstream response of slot r signals an error
ResponseErrors(r) ==
    /\ up[r].phase \in {"response", "aborting"}
    /\ up'[r].phase = "closed"

\* no usage record is ever logged for a request whose upstream response
\* signalled an error
NoRecordAfterResponseError ==
    [](\A r \in Reqs : up[r].phase = "closed" => RecordsOf(log, r) = <<>>)

\* C16 as stated: when the body of the upstream response signals an error
\* after the headers were relayed and the client has not disconnected, an
\* event stream gets exactly one SSE error frame ("event: error" and a data
\* line with {error: {message, type: "server_error"}}) and is ended, a
\* buffered response is ended with no error frame, and in both cases no usage
\* record is appended for the request, even if a usage frame was seen.
C16_ResponseErrorAsStated ==
    /\ [][\A r \in Reqs :
            ResponseErrors(r) /\ call[r].listening /\ ~call[r].clientAborted =>
                /\ res'[r].ended
                /\ ErrorFrameCount(res'[r]) = IF call[r].isStreaming THEN 1 ELSE 0
                /\ log' = log]_vars
    /\ NoRecordAfterResponseError

\* C16: when the body of the upstream response signals an error after the
\* headers were relayed, the client has not disconnected and no earlier error
\* of the upstream request has already ended the client response, an event
\* stream gets, after the chunks relayed so far, exactly one SSE error frame
\* with {error: {message, type: "server_error"}} and is ended, and a buffered
\* response is ended with no error frame; a client response that an earlier
\* error has ended receives nothing more; in every case no usage record is
\* appended for the request, then or later, even if a usage frame was seen.
C16_ResponseErrorAnswered ==
    /\ [][\A r \in Reqs :
            ResponseErrors(r) /\ call[r].listening /\ ~call[r].clientAborted =>
                /\ res'[r].ended
                /\ IF res[r].ended
                   THEN res'[r].body = res[r].body
                   ELSE \E message \in ErrorMessages :
                           res'[r].body = IF call[r].isStreaming
                                          THEN up[r].received \o ErrorFrame(message)
                                          ELSE up[r].received
                /\ log' = log]_vars
    /\ NoRecordAfterResponseError

\* an event stream in which a usage frame had been seen was cut short: one
\* error frame follows the relayed chunks and nothing is logged
C16_Witness ==
    \E r \in Reqs :
        /\ up[r].phase = "closed"
        /\ call[r].isStreaming
        /\ ~call[r].clientAborted
        /\ Truthy(call[r].usage)
        /\ res[r].ended
        /\ res[r].body = up[r].received \o ErrorFrame(<<"a", "b", "o", "r", "t", "e", "d">>)
        /\ log = <<>>

\* the step in which the timeout of the upstream request of slot r destroys it
TimeoutDestroys(r) ==
    /\ ~up[r].destroyed
    /\ up'[r].destroyed
    /\ call'[r] = call[r]

\* C17: when the timeout of the outbound request fires the upstream request is
\* destroyed with the error "upstream-timeout", which is handled as an
\* upstream error: before any response headers and with the client connected
\* the client receives 502 with {error: {message: "upstream-timeout", type:
\* "server_error"}}; if the client has disconnected nothing is written; and in
\* no case is a usage record appended for the request.
C17_TimeoutAnswered ==
    /\ [][\A r \in Reqs :
            /\ TimeoutDestroys(r) =>
                  /\ up[r].phase \in {"pending", "response"}
                  /\ up'[r].phase = AfterRequestError(up[r].phase)
                  /\ ~call[r].clientAborted
                  /\ up[r].phase = "pending" =>
                        AnsweredWith(res'[r], 502,
                            ErrorPayload(<<"u", "p", "s", "t", "r", "e", "a", "m", "-",
                                           "t", "i", "m", "e", "o", "u", "t">>,
                                         Type_ServerError))
                  /\ up[r].phase = "response" => res'[r].ended
                  /\ log' = log
            /\ call[r].clientAborted /\ call'[r] = call[r] =>
                  res'[r] = res[r] /\ log' = log]_vars
    /\ [](\A r \in Reqs : UpstreamFailed(r) => RecordsOf(log, r) = <<>>)

\* the timeout fired before the response headers and the client was answered
\* 502 "upstream-timeout"
C17_Witness ==
    \E r \in Reqs :
        /\ up[r].phase = "errored"
        /\ up[r].destroyed
        /\ ~call[r].clientAborted
        /\ AnsweredWith(res[r], 502, ErrorPayload(Msg_UpstreamTimeout, Type_ServerError))
        /\ RecordsOf(log, r) = <<>>

-----------------------------------------------------------------------------
(* Two requests in flight at once *)

\* the requests, response heads and chunks of the two clients and upstreams:
\* an event stream with the usage of UsageA, JSON bodies with the usage of
\* UsageA and of UsageZero
PairRequests == {ReqChatStream, ReqChatPlain}

PairHeads == {Head_SSE, Head_JSON}

PairChunks == {Chunk_UsageFrame, Chunk_ZeroBody}

\* the first 'aborted' event of a request
Disconnect(r) == ~call[r].clientAborted /\ ClientAborted(r)

NextPair ==
    \E r \in Reqs :
        \/ Arrive(r, PairRequests)
        \/ UpstreamResponse(r, PairHeads)
        \/ UpstreamData(r, PairChunks)
        \/ UpstreamEnd(r)
        \/ Disconnect(r)

InitPair == InitWith(Reqs) /\ keysFile = File_A

SpecPair == InitPair /\ [][NextPair]_vars

-----------------------------------------------------------------------------
(* Properties of requests in flight together *)

\* C18: in every interleaving of the events of two requests in flight, the
\* carry-over buffer, usage snapshot and aborted flag of a request change only
\* at that request's own events: the disconnect of one request suppresses no
\* write and no record of the other, the chunks of one upstream response reach
\* only the client and the usage snapshot of its own request, and every usage
\* record pairs the key of a request with the usage of that request's own
\* upstream response.
C18_RequestsIsolated ==
    /\ [][\E r \in Reqs :
            \A q \in Reqs \ {r} :
                /\ call'[q] = call[q]
                /\ res'[q] = res[q]
                /\ up'[q] = up[q]
                /\ RecordsOf(log', q) = RecordsOf(log, q)]_vars
    /\ [](\A r \in Reqs :
            /\ call[r].listening /\ ~UpstreamFailed(r) =>
                  IsPrefix(res[r].body, up[r].received)
            /\ CompletedConnected(r) =>
                  /\ res[r].body = up[r].received
                  /\ Truthy(PayloadUsage(r)) => Len(RecordsOf(log, r)) = 1
            /\ \A i \in 1..Len(RecordsOf(log, r)) :
                  /\ RecordsOf(log, r)[i].apikey = Str(TokenOf(call[r].req))
                  /\ RecordsOf(log, r)[i].usage = PayloadUsage(r)
                  /\ call[r].usage = PayloadUsage(r))

\* one client disconnected while relaying; the other request, with another
\* key and another usage, completed and was logged with its own key and usage
C18_Witness ==
    \E r, q \in Reqs :
        /\ call[r].clientAborted
        /\ call[r].listening
        /\ ~res[r].ended
        /\ up[r].received # <<>>
        /\ ~call[q].clientAborted
        /\ CompletedConnected(q)
        /\ call[q].apiKey # call[r].apiKey
        /\ up[q].received # up[r].received
        /\ Len(RecordsOf(log, q)) = 1
        /\ RecordsOf(log, q)[1].usage = UsageZero
        /\ RecordsOf(log, q)[1].apikey = call[q].apiKey

-----------------------------------------------------------------------------
(* Properties of the client response over every sequence of upstream events *)

\* the number of 502 and 504 JSON error bodies in the body written to a client
\* response
ErrorBodyCount(response) ==
    Cardinality({i \in 1..Len(response.body) :
                    \E message \in ErrorMessages :
                        response.body[i] = JSONStringify(ErrorPayload(message, Type_ServerError))})

\* C19: for every request and every sequence of upstream events (headers,
\* data, end, response error, request error, timeout, several error signals
\* for one failure included), res.end() takes effect at most once and is not
\* called again, at most one error frame or error body is sent, and nothing is
\* written to the client response after it has been ended.
C19_EndedOnceNothingAfter ==
    \A r \in Reqs :
        /\ res[r].endCalls <= 1
        /\ res[r].lateWrites = 0
        /\ ErrorFrameCount(res[r]) + ErrorBodyCount(res[r]) <= 1

\* what reaches the client: at most one error frame or error body, whatever
\* the handlers attempt after the end
AtMostOneErrorOutputReceived ==
    \A r \in Reqs : ErrorFrameCount(res[r]) + ErrorBodyCount(res[r]) <= 1

\* without a second error signal the client response is ended once and
\* nothing is written after the end
EndedOnceWithOneErrorSignal ==
    \A r \in Reqs :
        up[r].phase # "closed" => res[r].endCalls <= 1 /\ res[r].lateWrites = 0

-----------------------------------------------------------------------------
(* One request whose upstream eventually ends, fails or times out *)

\* the event of the upstream request of slot r after which no body follows:
\* the end of the response, an error of the response or of the request, or
\* the timeout of line 132
UpstreamSettles(r) ==
    \/ UpstreamEnd(r)
    \/ UpstreamResError(r)
    \/ UpstreamReqError(r)
    \/ UpstreamTimeout(r)

NextLive ==
    \E r \in Reqs :
        \/ Arrive(r, KeyRequests)
        \/ UpstreamResponse(r, PairHeads)
        \/ UpstreamData(r, PairChunks)
        \/ UpstreamSettles(r)
        \/ Disconnect(r)

InitLive == InitWith({"r1"}) /\ keysFile = File_A

\* the upstream does not stay silent forever: while one of its closing events
\* can happen, one of them eventually does
SpecLive == InitLive /\ [][NextLive]_vars /\ \A r \in Reqs : WF_vars(UpstreamSettles(r))

-----------------------------------------------------------------------------
(* Termination *)

\* the request of slot r is with the upstream: sent and not yet answered
\* (DISPATCHING), or its response is being relayed (RELAYING)
InFlight(r) == up[r].phase \in {"pending", "response"}

\* C20: every request that arrived reaches a terminal state, provided the
\* upstream eventually delivers the end of the response, an error or the
\* timeout: while the client stays connected the client response is eventually
\* ended (401, 502, error frame or normal completion); once the client has
\* disconnected the upstream request is destroyed; and no request stays
\* dispatched or relaying forever.
C20_EveryRequestTerminates ==
    \A r \in Reqs :
        /\ Proxied(r) ~> (res[r].ended \/ call[r].clientAborted)
        /\ call[r].clientAborted ~> up[r].destroyed
        /\ InFlight(r) ~> ~InFlight(r)

\* a buffered response was relayed to its end and the client response ended,
\* with the upstream request never destroyed
C20_Witness ==
    \E r \in Reqs :
        /\ call[r].pc = "proxying"
        /\ ~call[r].isStreaming
        /\ up[r].phase = "ended"
        /\ ~up[r].destroyed
        /\ up[r].received # <<>>
        /\ res[r].ended
        /\ res[r].endCalls = 1

\* a client that disconnected while its response was relayed: the upstream
\* request is destroyed and has left the relaying state, the client response
\* is never ended
DisconnectedTerminal ==
    \E r \in Reqs :
        /\ call[r].clientAborted
        /\ up[r].destroyed
        /\ up[r].received # <<>>
        /\ ~InFlight(r)
        /\ ~res[r].ended

=============================================================================
